---- MODULE Spec2Model ----
(***************************************************************************)
(* A model of linter.py: the three lint rules (UnusedImportsRule,          *)
(* UnusedVariablesRule, DuplicateDictKeysRule) and Linter.lint.            *)
(*                                                                         *)
(* A syntax tree is held in linear form: the sequence of its nodes in the  *)
(* order ast.NodeVisitor reaches them, a compound node (FunctionDef,       *)
(* ClassDef, ListComp, If, Dict) being followed by its children and a      *)
(* closing "End" marker.  Every rule object is a record of its instance    *)
(* fields; every visitor method is an operator from the rule object and a  *)
(* node to the rule object after the call.                                 *)
(***************************************************************************)
EXTENDS Integers, Sequences, FiniteSets, TLC

VARIABLES
    tree,            \* the syntax tree being analysed (nodes visited so far)
    pc,              \* where the running call stands
    imports_rule,    \* Linter.rules[0]: UnusedImportsRule instance
    variables_rule,  \* Linter.rules[1]: UnusedVariablesRule instance
    dict_rule,       \* Linter.rules[2]: DuplicateDictKeysRule instance
    result,          \* what the last finished call returned
    log              \* the finished calls of Linter.lint: <<tree, result>> records

vars == <<tree, pc, imports_rule, variables_rule, dict_rule, result, log>>

(***************************************************************************)
(* Bounds of the model.                                                    *)
(***************************************************************************)
MaxNodesImports == 3
MaxNodesVars == 4
MaxNodesBranch == 6
MaxNodesDict == 7
MaxNodesLint == 4
MaxCalls == 2

(***************************************************************************)
(* Syntax-tree nodes.                                                      *)
(***************************************************************************)
None == ""

NoKey == [type |-> "none", repr |-> "", num |-> 0]

\* ast.Constant keys: str(value) is repr, num the numeric value of an int or bool
StrKey(s) == [type |-> "str", repr |-> s, num |-> 0]
IntKey(n) == [type |-> "int", repr |-> ToString(n), num |-> n]
BoolKey(b) == [type |-> "bool", repr |-> IF b THEN "True" ELSE "False", num |-> IF b THEN 1 ELSE 0]
\* a key that is no ast.Constant: a tuple, a negative number (UnaryOp), a call
ExprKey == [type |-> "expr", repr |-> "", num |-> 0]

Node(kind, name, lineno) ==
    [kind |-> kind, name |-> name, asname |-> None, ctx |-> None,
     key |-> NoKey, value |-> None, lineno |-> lineno]

\* ast.alias of an Import / ImportFrom statement with one alias
ImportNode(kind, name, asname, lineno) ==
    [Node(kind, name, lineno) EXCEPT !.asname = asname]

NameNode(id, ctx, lineno) ==
    [Node("Name", id, lineno) EXCEPT !.ctx = ctx]

\* one (key, value) pair of an ast.Dict; value is the class of the value node:
\* "Constant" (a leaf), "Dict" (the Dict node that follows) or "List" (a List
\* whose element is the Dict node that follows)
KeyNode(key, value, lineno) ==
    [Node("Key", None, lineno) EXCEPT !.key = key, !.value = value]

EndNode == Node("End", None, 0)
ElseNode == Node("Else", None, 0)

ScopeKinds == {"FunctionDef", "AsyncFunctionDef", "ClassDef", "ListComp"}
CompoundKinds == ScopeKinds \cup {"If", "Dict"}
StatementKinds ==
    {"Import", "ImportFrom", "Assign", "AugAssign", "FunctionDef",
     "AsyncFunctionDef", "ClassDef", "If"}

Last(s) == s[Len(s)]
Front(s) == SubSeq(s, 1, Len(s) - 1)

\* the compound nodes of t not yet closed, outermost first
RECURSIVE Open(_)
Open(t) ==
    IF t = <<>> THEN <<>>
    ELSE LET rest == Open(Front(t))
             n == Last(t)
         IN  IF n.kind = "End" THEN Front(rest)
             ELSE IF n.kind = "Else" THEN Append(Front(rest), "IfElse")
             ELSE IF n.kind \in CompoundKinds THEN Append(rest, n.kind)
             ELSE rest

Top(t) == IF Open(t) = <<>> THEN "Module" ELSE Last(Open(t))

RECURSIVE LastLine(_)
LastLine(t) ==
    IF t = <<>> THEN 0
    ELSE IF Last(t).lineno > 0 THEN Last(t).lineno
    ELSE LastLine(Front(t))

AwaitsValue(t) == t # <<>> /\ Last(t).kind = "Key" /\ Last(t).value # "Constant"

\* node n may follow the nodes t in a tree the parser produces
CanFollow(t, n) ==
    LET open == Open(t)
        top == IF open = <<>> THEN "Module" ELSE Last(open)
        line == LastLine(t)
    IN  /\ AwaitsValue(t) => n.kind = "Dict"
        /\ n.kind = "End" => open # <<>>
        /\ n.kind = "Else" => top = "If"
        /\ n.kind = "Key" => (top = "Dict" /\ ~AwaitsValue(t))
        /\ (top = "Dict" /\ ~AwaitsValue(t)) => n.kind \in {"Key", "End"}
        /\ n.kind \in StatementKinds =>
                \A i \in 1..Len(open) : open[i] \notin {"ListComp", "Dict"}
        /\ n.kind \in {"End", "Else"} \/ n.lineno \in {line, line + 1} \ {0}
        /\ (n.kind \in {"FunctionDef", "AsyncFunctionDef", "ClassDef", "If"})
                => n.lineno = line + 1

\* the tree t can be completed to one of at most max nodes
Closable(t, max) == Len(t) + Len(Open(t)) + (IF AwaitsValue(t) THEN 2 ELSE 0) <= max

Complete(t) == Open(t) = <<>> /\ ~AwaitsValue(t)

(***************************************************************************)
(* LintError                                                               *)
(***************************************************************************)
LintError(rule_name, message, line_number) ==
    [rule_name |-> rule_name, message |-> message, line_number |-> line_number]

(***************************************************************************)
(* UnusedImportsRule                                                       *)
(***************************************************************************)
NewUnusedImportsRule ==
    [rule_name |-> "unused_import", errors |-> <<>>, imports |-> <<>>,
     used_imports |-> {}]

\* mutant: the alias of a renamed import is ignored
BoundName_ignores_alias(node) == node.name

\* name = alias.asname or alias.name
BoundName(node) == IF node.asname # None THEN node.asname ELSE node.name

visit_Import(self, node) ==
    [self EXCEPT !.imports = Append(@, <<BoundName(node), node.lineno>>)]

visit_ImportFrom(self, node) ==
    [self EXCEPT !.imports = Append(@, <<BoundName(node), node.lineno>>)]

Imports_visit_Name(self, node) ==
    IF node.ctx = "Load"
    THEN [self EXCEPT !.used_imports = @ \cup {node.name}]
    ELSE self

\* NodeVisitor.visit: dispatch on the node's class, generic_visit otherwise
Imports_visit(self, node) ==
    CASE node.kind = "Import" -> visit_Import(self, node)
      [] node.kind = "ImportFrom" -> visit_ImportFrom(self, node)
      [] node.kind = "Name" -> Imports_visit_Name(self, node)
      [] OTHER -> self

Imports_reset(self) == [self EXCEPT !.imports = <<>>, !.used_imports = {}]

UnusedImportError(self, name, lineno) ==
    LintError(self.rule_name, "Imported name '" \o name \o "' is unused", lineno)

\* the loop of check over self.imports from position i
RECURSIVE Imports_loop(_, _, _, _)
Imports_loop(self, i, imported_names, errors) ==
    IF i > Len(self.imports) THEN errors
    ELSE LET name == self.imports[i][1]
             lineno == self.imports[i][2]
         IN  IF name \notin imported_names
             THEN Imports_loop(self, i + 1, imported_names \cup {name},
                      IF name \notin self.used_imports
                      THEN Append(errors, UnusedImportError(self, name, lineno))
                      ELSE errors)
             ELSE Imports_loop(self, i + 1, imported_names,
                      IF name \notin self.used_imports
                      THEN Append(errors, UnusedImportError(self, name, lineno))
                      ELSE errors)

\* check after self.visit(tree): build the errors, store and return them
Imports_finish(self) == [self EXCEPT !.errors = Imports_loop(self, 1, {}, <<>>)]

RECURSIVE Imports_visit_all(_, _, _)
Imports_visit_all(self, t, i) ==
    IF i > Len(t) THEN self
    ELSE Imports_visit_all(Imports_visit(self, t[i]), t, i + 1)

Imports_check(self, t) ==
    Imports_finish(Imports_visit_all(Imports_reset(self), t, 1))

(***************************************************************************)
(* UnusedVariablesRule                                                     *)
(***************************************************************************)
\* a sample of set(dir(builtins))
BUILTIN_NAMES == {"len", "print", "id", "list", "dict", "str", "int", "range"}

\* current_scope is a reference to one of the dicts of self.scopes: its index
\* in the stack, or 0 for None
NewUnusedVariablesRule ==
    [rule_name |-> "unused_variable", errors |-> <<>>, scopes |-> <<>>,
     current_scope |-> 0]

_enter_scope(self) ==
    [self EXCEPT !.scopes = Append(self.scopes, <<>>),
                 !.current_scope = Len(self.scopes) + 1]

UnusedVariableError(self, var, line) ==
    LintError(self.rule_name, "Variable '" \o var \o "' is unused", line)

\* the loop of _exit_scope over current_scope.items(), from position i
RECURSIVE _exit_scope_loop(_, _, _)
_exit_scope_loop(self, scope, i) ==
    IF i > Len(scope) THEN self
    ELSE _exit_scope_loop(
             IF ~scope[i].used
             THEN [self EXCEPT !.errors =
                      Append(@, UnusedVariableError(self, scope[i].var, scope[i].line))]
             ELSE self,
             scope, i + 1)

_exit_scope(self) ==
    IF self.scopes = <<>> THEN self
    ELSE LET popped == Last(self.scopes)
             rest == Front(self.scopes)
         IN  _exit_scope_loop(
                 [self EXCEPT !.scopes = rest,
                              !.current_scope = IF rest # <<>> THEN Len(rest) ELSE 0],
                 popped, 1)

startswith(name, prefix) ==
    Len(name) >= Len(prefix) /\ SubSeq(name, 1, Len(prefix)) = prefix

Declares(scope, name) == \E i \in 1..Len(scope) : scope[i].var = name

\* mutant: a later assignment declares the name again, at its own line
_record_variable_redeclares(self, name, lineno) ==
    IF startswith(name, "_") \/ name \in BUILTIN_NAMES THEN self
    ELSE IF self.current_scope = 0 THEN self
    ELSE IF Declares(self.scopes[self.current_scope], name)
    THEN [self EXCEPT !.scopes[self.current_scope] =
             [i \in 1..Len(@) |->
                 IF @[i].var = name
                 THEN [var |-> name, line |-> lineno, used |-> FALSE]
                 ELSE @[i]]]
    ELSE [self EXCEPT !.scopes[self.current_scope] =
             Append(@, [var |-> name, line |-> lineno, used |-> FALSE])]

\* mutant: ignored and built-in names are recorded like any other
_record_variable_records_all(self, name, lineno) ==
    IF self.current_scope # 0 /\ ~Declares(self.scopes[self.current_scope], name)
    THEN [self EXCEPT !.scopes[self.current_scope] =
             Append(@, [var |-> name, line |-> lineno, used |-> FALSE])]
    ELSE self

_record_variable(self, name, lineno) ==
    IF startswith(name, "_") \/ name \in BUILTIN_NAMES THEN self
    ELSE IF self.current_scope # 0 /\ ~Declares(self.scopes[self.current_scope], name)
    THEN [self EXCEPT !.scopes[self.current_scope] =
             Append(@, [var |-> name, line |-> lineno, used |-> FALSE])]
    ELSE self

\* visit_FunctionDef up to generic_visit; node.name is the parameter's name
\* (the parameters of all five classes are recorded alike), None without one
visit_FunctionDef(self, node) ==
    IF node.name # None
    THEN _record_variable(_enter_scope(self), node.name, node.lineno)
    ELSE _enter_scope(self)

visit_AsyncFunctionDef(self, node) == visit_FunctionDef(self, node)

\* mutant: a class body gets no scope of its own
visit_ClassDef_no_scope(self, node) == self

visit_ClassDef(self, node) == _enter_scope(self)

\* target is a Name (node.name); Tuple and List targets are their Names in turn
_handle_target(self, node) == _record_variable(self, node.name, node.lineno)

\* _handle_comprehension up to generic_visit
_handle_comprehension(self, node) == _handle_target(_enter_scope(self), node)

visit_ListComp(self, node) == _handle_comprehension(self, node)

_handle_assignment_target(self, node) ==
    _record_variable(self, node.name, node.lineno)

visit_Assign(self, node) == _handle_assignment_target(self, node)

visit_AugAssign(self, node) == _handle_assignment_target(self, node)

\* the index of the innermost scope, at or below i, that declares name; 0 if none
RECURSIVE InnermostDeclaring(_, _, _)
InnermostDeclaring(scopes, name, i) ==
    IF i = 0 THEN 0
    ELSE IF Declares(scopes[i], name) THEN i
    ELSE InnermostDeclaring(scopes, name, i - 1)

MarkUsed(scope, name) ==
    [i \in 1..Len(scope) |->
        IF scope[i].var = name THEN [scope[i] EXCEPT !.used = TRUE] ELSE scope[i]]

\* mutant: the search does not stop at the first scope that declares the name
Vars_visit_Name_marks_all(self, node) ==
    IF node.ctx = "Load"
    THEN [self EXCEPT !.scopes =
             [i \in 1..Len(@) |-> MarkUsed(@[i], node.name)]]
    ELSE self

Vars_visit_Name(self, node) ==
    IF node.ctx = "Load"
    THEN LET i == InnermostDeclaring(self.scopes, node.name, Len(self.scopes))
         IN  IF i = 0 THEN self
             ELSE [self EXCEPT !.scopes[i] = MarkUsed(@, node.name)]
    ELSE self

\* NodeVisitor.visit; closing is the class of the node whose visit returns
\* when node is the End marker
Vars_visit(self, node, closing) ==
    CASE node.kind = "FunctionDef" -> visit_FunctionDef(self, node)
      [] node.kind = "AsyncFunctionDef" -> visit_AsyncFunctionDef(self, node)
      [] node.kind = "ClassDef" -> visit_ClassDef(self, node)
      [] node.kind = "ListComp" -> visit_ListComp(self, node)
      [] node.kind = "Assign" -> visit_Assign(self, node)
      [] node.kind = "AugAssign" -> visit_AugAssign(self, node)
      [] node.kind = "Name" -> Vars_visit_Name(self, node)
      [] node.kind = "End" /\ closing \in ScopeKinds -> _exit_scope(self)
      [] OTHER -> self

Vars_begin(self) ==
    _enter_scope([self EXCEPT !.scopes = <<>>, !.current_scope = 0])

RECURSIVE Vars_visit_all(_, _, _)
Vars_visit_all(self, t, i) ==
    IF i > Len(t) THEN self
    ELSE Vars_visit_all(Vars_visit(self, t[i], Top(SubSeq(t, 1, i - 1))), t, i + 1)

Vars_check(self, t) == _exit_scope(Vars_visit_all(Vars_begin(self), t, 1))

(***************************************************************************)
(* DuplicateDictKeysRule                                                   *)
(***************************************************************************)
\* frames: the nodes whose visit is running, outermost first.  A frame of
\* visit_Dict holds its local seen (key -> metadata, in insertion order) and
\* the class of the value of the pair in hand; a "generic" frame is a node
\* generic_visit walks; a "skipped" frame is a node no visit reaches.
NewDuplicateDictKeysRule ==
    [rule_name |-> "duplicate_dict_keys", errors |-> <<>>, frames |-> <<>>]

Frame(kind) == [kind |-> kind, seen |-> <<>>, value |-> None]

\* equality (and hash) of two constants as keys of the dict seen
PyEq(a, b) ==
    IF a.type \in {"int", "bool"} /\ b.type \in {"int", "bool"}
    THEN a.num = b.num
    ELSE a.type = b.type /\ a.repr = b.repr

\* seen[key.value].append(metadata)
SeenAppend(seen, key, lineno) ==
    IF \E i \in 1..Len(seen) : PyEq(seen[i].key, key)
    THEN [i \in 1..Len(seen) |->
            IF PyEq(seen[i].key, key)
            THEN [seen[i] EXCEPT !.metadata = Append(@, lineno)]
            ELSE seen[i]]
    ELSE Append(seen, [key |-> key, metadata |-> <<lineno>>])

\* ", ".join(str(line["lineno"]) for line in metadata)
RECURSIVE JoinLines(_)
JoinLines(metadata) ==
    IF Len(metadata) = 0 THEN ""
    ELSE IF Len(metadata) = 1 THEN ToString(metadata[1])
    ELSE ToString(metadata[1]) \o ", " \o JoinLines(Tail(metadata))

\* mutant: the error is put at the line of the last occurrence
DuplicateKeyError_last_line(self, key, metadata) ==
    LintError(self.rule_name,
              "Key \"" \o key.repr \o "\" has been repeated on lines "
                  \o JoinLines(metadata),
              metadata[Len(metadata)])

DuplicateKeyError(self, key, metadata) ==
    LintError(self.rule_name,
              "Key \"" \o key.repr \o "\" has been repeated on lines "
                  \o JoinLines(metadata),
              metadata[1])

\* the second loop of visit_Dict, over seen.items() from position i
RECURSIVE visit_Dict_report(_, _, _)
visit_Dict_report(self, seen, i) ==
    IF i > Len(seen) THEN self
    ELSE visit_Dict_report(
             IF Len(seen[i].metadata) > 1
             THEN [self EXCEPT !.errors =
                      Append(@, DuplicateKeyError(self, seen[i].key, seen[i].metadata))]
             ELSE self,
             seen, i + 1)

TopFrame(self) ==
    IF self.frames = <<>> THEN Frame("generic") ELSE Last(self.frames)

\* whether a visit reaches the Dict node that comes next: generic_visit does;
\* visit_Dict visits a value only if isinstance(value, ast.Dict)
Reaches(self) ==
    \/ TopFrame(self).kind = "generic"
    \/ TopFrame(self).kind = "visit_Dict" /\ TopFrame(self).value = "Dict"

\* a Dict node is entered
visit_Dict_enter(self) ==
    [self EXCEPT !.frames =
        Append(@, Frame(IF Reaches(self) THEN "visit_Dict" ELSE "skipped"))]

\* one turn of the first loop of visit_Dict
visit_Dict_pair(self, node) ==
    IF TopFrame(self).kind # "visit_Dict" THEN self
    ELSE [self EXCEPT !.frames[Len(self.frames)] =
             [@ EXCEPT !.seen = IF node.key.type # "expr"
                                THEN SeenAppend(@, node.key, node.lineno)
                                ELSE @,
                       !.value = node.value]]

\* the visit of the innermost running node returns
Dict_leave(self) ==
    LET f == TopFrame(self)
        popped == [self EXCEPT !.frames = Front(@)]
    IN  IF f.kind = "visit_Dict" THEN visit_Dict_report(popped, f.seen, 1)
        ELSE popped

Dict_visit(self, node) ==
    CASE node.kind = "Dict" -> visit_Dict_enter(self)
      [] node.kind = "Key" -> visit_Dict_pair(self, node)
      [] node.kind = "End" -> Dict_leave(self)
      [] node.kind \in CompoundKinds ->
            [self EXCEPT !.frames =
                Append(@, Frame(IF TopFrame(self).kind = "skipped"
                                THEN "skipped" ELSE "generic"))]
      [] OTHER -> self

RECURSIVE Dict_visit_all(_, _, _)
Dict_visit_all(self, t, i) ==
    IF i > Len(t) THEN self
    ELSE Dict_visit_all(Dict_visit(self, t[i]), t, i + 1)

Dict_check(self, t) == Dict_visit_all(self, t, 1)

(***************************************************************************)
(* Linter                                                                  *)
(***************************************************************************)
\* sorted(errors, key=lambda e: e.line_number): a stable sort
\* mutant: an unstable sort, equal lines come out in reverse
SortedInsert_before_equal(sorted, e) ==
    LET k == Cardinality({i \in 1..Len(sorted) : sorted[i].line_number < e.line_number})
    IN  SubSeq(sorted, 1, k) \o <<e>> \o SubSeq(sorted, k + 1, Len(sorted))

SortedInsert(sorted, e) ==
    LET k == Cardinality({i \in 1..Len(sorted) : sorted[i].line_number <= e.line_number})
    IN  SubSeq(sorted, 1, k) \o <<e>> \o SubSeq(sorted, k + 1, Len(sorted))

RECURSIVE sorted_by_line(_)
sorted_by_line(errors) ==
    IF errors = <<>> THEN <<>>
    ELSE SortedInsert(sorted_by_line(Front(errors)), Last(errors))

(***************************************************************************)
(* The inputs: the nodes that may come next in the tree being analysed.    *)
(***************************************************************************)
NextLine(t) == LastLine(t) + 1

ImportNames == {"os", "np"}
AsNames == {None, "np"}

ImportNodes(kind, t) ==
    {ImportNode(kind, n, a, NextLine(t)) : n \in ImportNames, a \in AsNames}

NameNodes(ids, ctxs, t) == {NameNode(id, c, NextLine(t)) : id \in ids, c \in ctxs}

Nodes(kind, names, t) == {Node(kind, n, NextLine(t)) : n \in names}

\* the node is the next one of the tree, which stays within max nodes
Reads(node, max) ==
    /\ pc = "visit"
    /\ CanFollow(tree, node)
    /\ Closable(Append(tree, node), max)
    /\ tree' = Append(tree, node)

(***************************************************************************)
(* UnusedImportsRule.check(tree), node by node                             *)
(***************************************************************************)
InitImports ==
    /\ tree = <<>>
    /\ pc = "visit"
    /\ imports_rule = Imports_reset(NewUnusedImportsRule)
    /\ variables_rule = NewUnusedVariablesRule
    /\ dict_rule = NewDuplicateDictKeysRule
    /\ result = <<>>
    /\ log = <<>>

ImportsVisits(node) ==
    /\ Reads(node, MaxNodesImports)
    /\ imports_rule' = Imports_visit(imports_rule, node)
    /\ UNCHANGED <<pc, variables_rule, dict_rule, result, log>>

Imports_Import == \E node \in ImportNodes("Import", tree) : ImportsVisits(node)

Imports_ImportFrom == \E node \in ImportNodes("ImportFrom", tree) : ImportsVisits(node)

Imports_Name ==
    \E node \in NameNodes(ImportNames, {"Load", "Store"}, tree) : ImportsVisits(node)

Imports_generic_visit ==
    \E node \in Nodes("FunctionDef", {None}, tree) \cup {EndNode} : ImportsVisits(node)

Imports_return ==
    /\ pc = "visit"
    /\ Complete(tree)
    /\ imports_rule' = Imports_finish(imports_rule)
    /\ result' = imports_rule'.errors
    /\ pc' = "done"
    /\ UNCHANGED <<tree, variables_rule, dict_rule, log>>

NextImports ==
    \/ Imports_Import
    \/ Imports_ImportFrom
    \/ Imports_Name
    \/ Imports_generic_visit
    \/ Imports_return

SpecImports == InitImports /\ [][NextImports]_vars

(***************************************************************************)
(* UnusedVariablesRule.check(tree), node by node                           *)
(***************************************************************************)
InitVars ==
    /\ tree = <<>>
    /\ pc = "visit"
    /\ imports_rule = NewUnusedImportsRule
    /\ variables_rule = Vars_begin(NewUnusedVariablesRule)
    /\ dict_rule = NewDuplicateDictKeysRule
    /\ result = <<>>
    /\ log = <<>>

VarsVisits(node, max) ==
    /\ Reads(node, max)
    /\ variables_rule' = Vars_visit(variables_rule, node, Top(tree))
    /\ UNCHANGED <<pc, imports_rule, dict_rule, result, log>>

Vars_FunctionDef ==
    \E node \in Nodes("FunctionDef", {"x", "len"}, tree) : VarsVisits(node, MaxNodesVars)

Vars_AsyncFunctionDef ==
    \E node \in Nodes("AsyncFunctionDef", {None}, tree) : VarsVisits(node, MaxNodesVars)

Vars_ClassDef ==
    \E node \in Nodes("ClassDef", {None}, tree) : VarsVisits(node, MaxNodesVars)

Vars_ListComp ==
    \E node \in Nodes("ListComp", {"x", "_tmp"}, tree) : VarsVisits(node, MaxNodesVars)

Vars_Assign ==
    \E node \in Nodes("Assign", {"x", "y", "_tmp"}, tree) : VarsVisits(node, MaxNodesVars)

Vars_AugAssign ==
    \E node \in Nodes("AugAssign", {"x"}, tree) : VarsVisits(node, MaxNodesVars)

Vars_Name ==
    \E node \in NameNodes({"x", "_tmp"}, {"Load"}, tree) : VarsVisits(node, MaxNodesVars)

\* an If statement: no visitor method, generic_visit walks its branches
Vars_If ==
    \E node \in Nodes("If", {None}, tree) : VarsVisits(node, MaxNodesVars)

\* the visit of the innermost compound node returns
Vars_End == pc = "visit" /\ VarsVisits(EndNode, MaxNodesVars)

Vars_return ==
    /\ pc = "visit"
    /\ Complete(tree)
    /\ variables_rule' = _exit_scope(variables_rule)
    /\ result' = variables_rule'.errors
    /\ pc' = "done"
    /\ UNCHANGED <<tree, imports_rule, dict_rule, log>>

NextVars ==
    \/ Vars_FunctionDef
    \/ Vars_AsyncFunctionDef
    \/ Vars_ClassDef
    \/ Vars_ListComp
    \/ Vars_Assign
    \/ Vars_AugAssign
    \/ Vars_Name
    \/ Vars_If
    \/ Vars_End
    \/ Vars_return

SpecVars == InitVars /\ [][NextVars]_vars

(***************************************************************************)
(* UnusedVariablesRule.check(tree) on trees with conditionals              *)
(***************************************************************************)
Branch_If ==
    \E node \in Nodes("If", {None}, tree) : VarsVisits(node, MaxNodesBranch)

Branch_Else == pc = "visit" /\ VarsVisits(ElseNode, MaxNodesBranch)

Branch_End == pc = "visit" /\ VarsVisits(EndNode, MaxNodesBranch)

Branch_Assign ==
    \E node \in Nodes("Assign", {"x"}, tree) : VarsVisits(node, MaxNodesBranch)

Branch_Name ==
    \E node \in NameNodes({"x"}, {"Load"}, tree) : VarsVisits(node, MaxNodesBranch)

Branch_FunctionDef ==
    \E node \in Nodes("FunctionDef", {None}, tree) : VarsVisits(node, MaxNodesBranch)

NextBranch ==
    \/ Branch_If
    \/ Branch_Else
    \/ Branch_End
    \/ Branch_Assign
    \/ Branch_Name
    \/ Branch_FunctionDef
    \/ Vars_return

SpecBranch == InitVars /\ [][NextBranch]_vars

(***************************************************************************)
(* DuplicateDictKeysRule.check(tree), node by node                         *)
(***************************************************************************)
ConstantKeys == {StrKey("a"), IntKey(1), BoolKey(TRUE)}

KeyNodes(t) ==
    {KeyNode(k, "Constant", NextLine(t)) : k \in ConstantKeys \cup {ExprKey}}
        \cup {KeyNode(StrKey("a"), v, NextLine(t)) : v \in {"Dict", "List"}}

InitDict ==
    /\ tree = <<>>
    /\ pc = "visit"
    /\ imports_rule = NewUnusedImportsRule
    /\ variables_rule = NewUnusedVariablesRule
    /\ dict_rule = NewDuplicateDictKeysRule
    /\ result = <<>>
    /\ log = <<>>

DictVisits(node) ==
    /\ Reads(node, MaxNodesDict)
    /\ dict_rule' = Dict_visit(dict_rule, node)
    /\ UNCHANGED <<pc, imports_rule, variables_rule, result, log>>

Dict_Dict == \E node \in Nodes("Dict", {None}, tree) : DictVisits(node)

Dict_Key == \E node \in KeyNodes(tree) : DictVisits(node)

Dict_End == pc = "visit" /\ DictVisits(EndNode)

Dict_return ==
    /\ pc = "visit"
    /\ Complete(tree)
    /\ result' = dict_rule.errors
    /\ pc' = "done"
    /\ UNCHANGED <<tree, imports_rule, variables_rule, dict_rule, log>>

NextDict ==
    \/ Dict_Dict
    \/ Dict_Key
    \/ Dict_End
    \/ Dict_return

SpecDict == InitDict /\ [][NextDict]_vars

(***************************************************************************)
(* Linter.lint(source_code), called up to MaxCalls times on one Linter     *)
(***************************************************************************)
Init ==
    /\ tree = <<>>
    /\ pc = "parse"
    /\ imports_rule = NewUnusedImportsRule
    /\ variables_rule = NewUnusedVariablesRule
    /\ dict_rule = NewDuplicateDictKeysRule
    /\ result = <<>>
    /\ log = <<>>

SourceNodes(t) ==
    LET lines == {LastLine(t), NextLine(t)} \ {0}
    IN  {ImportNode("Import", "os", None, l) : l \in lines}
            \cup {Node("Assign", n, l) : n \in {"x", "y"}, l \in lines}
            \cup {KeyNode(StrKey("a"), "Constant", l) : l \in lines}
            \cup {Node("Dict", None, IF LastLine(t) = 0 THEN 1 ELSE LastLine(t)), EndNode}

\* the source text handed to lint: one more node of what ast.parse returns
Source ==
    /\ pc = "parse"
    /\ \E node \in SourceNodes(tree) :
          /\ CanFollow(tree, node)
          /\ Closable(Append(tree, node), MaxNodesLint)
          /\ tree' = Append(tree, node)
    /\ UNCHANGED <<pc, imports_rule, variables_rule, dict_rule, result, log>>

\* Linter.lint: every rule's check in registration order, errors.extend of
\* what each returns, then the sort
lint ==
    /\ pc = "parse"
    /\ Complete(tree)
    /\ imports_rule' = Imports_check(imports_rule, tree)
    /\ variables_rule' = Vars_check(variables_rule, tree)
    /\ dict_rule' = Dict_check(dict_rule, tree)
    /\ LET errors == imports_rule'.errors \o variables_rule'.errors \o dict_rule'.errors
       IN  result' = sorted_by_line(errors)
    /\ log' = Append(log, [tree |-> tree, result |-> result'])
    /\ pc' = "done"
    /\ UNCHANGED tree

\* the caller lints again: the same source text, or that text with more
\* statements after it
Again ==
    /\ pc = "done"
    /\ Len(log) < MaxCalls
    /\ pc' = "parse"
    /\ UNCHANGED <<tree, imports_rule, variables_rule, dict_rule, result, log>>

Next ==
    \/ Source
    \/ lint
    \/ Again

Spec == Init /\ [][Next]_vars

(***************************************************************************)
(* Properties                                                              *)
(***************************************************************************)
\* the identifiers of t in a read context
ReadNames(t) ==
    {t[i].name : i \in {j \in 1..Len(t) : t[j].kind = "Name" /\ t[j].ctx = "Load"}}

\* the name an import binds: the alias if renamed, else the original name
Binds(n) == IF n.asname = None THEN n.name ELSE n.asname

\* the imports of t whose bound name is read nowhere in t, in encounter order
UnreadImports(t) ==
    SelectSeq(t, LAMBDA n : /\ n.kind \in {"Import", "ImportFrom"}
                            /\ Binds(n) \notin ReadNames(t))

\* C3: when UnusedImportsRule.check returns, its errors are, in encounter
\* order, exactly one "Imported name '<name>' is unused" per import whose
\* bound name (alias if renamed, else the name) is read nowhere in the tree,
\* at that import's line; repeated imports are each reported, and a read
\* anywhere suppresses all imports of that name.
C3_UnusedImports ==
    pc = "done" =>
        LET unread == UnreadImports(tree)
        IN  /\ Len(result) = Len(unread)
            /\ \A i \in 1..Len(unread) :
                  result[i] = [rule_name |-> "unused_import",
                               message |-> "Imported name '" \o Binds(unread[i])
                                               \o "' is unused",
                               line_number |-> unread[i].lineno]

\* a renamed import and a plain import of the same name, which is only ever
\* an assignment target (no read): each import is reported, at its own line
C3_Witness ==
    /\ pc = "done"
    /\ Len(tree) = 3
    /\ tree[1].kind = "Import" /\ tree[1].asname # None /\ tree[1].name # tree[1].asname
    /\ tree[2].kind = "ImportFrom" /\ tree[2].asname = None
    /\ tree[2].name = tree[1].asname
    /\ tree[3].kind = "Name" /\ tree[3].ctx = "Store" /\ tree[3].name = tree[2].name
    /\ Len(result) = 2
    /\ result[1].message = result[2].message
    /\ result[1].line_number = 1 /\ result[2].line_number = 2

(***************************************************************************)
IsIgnored(name) == SubSeq(name, 1, 1) = "_" \/ name \in BUILTIN_NAMES

UnusedMessage(name) == "Variable '" \o name \o "' is unused"

\* what flushing a popped scope adds: its unused bindings, in insertion order
Flushed(scope) ==
    LET unused == SelectSeq(scope, LAMBDA b : ~b.used)
    IN  [i \in 1..Len(unused) |->
            [rule_name |-> "unused_variable",
             message |-> UnusedMessage(unused[i].var),
             line_number |-> unused[i].line]]

VisitsNode == tree' # tree
ScopeCloses ==
    \/ pc = "visit" /\ pc' = "done"
    \/ /\ VisitsNode
       /\ Last(tree').kind = "End"
       /\ Top(tree) \in {"FunctionDef", "AsyncFunctionDef", "ClassDef", "ListComp"}

\* C7: within one check call a scope holds each name once; a binding, once
\* made (at the line of the node that made it, unused), keeps its name and
\* line and never loses its used flag; popping a scope appends exactly its
\* unused bindings, in insertion order, each at its recorded line; errors
\* change at no other step, so no popped scope is flushed twice.
C7_DeclaredOnceFlushedOnce ==
    [][LET S == variables_rule.scopes
           T == variables_rule'.scopes
       IN  IF ScopeCloses
           THEN /\ T = Front(S)
                /\ variables_rule'.errors = variables_rule.errors \o Flushed(Last(S))
           ELSE /\ variables_rule'.errors = variables_rule.errors
                /\ Len(T) >= Len(S)
                /\ \A i \in 1..Len(T) : \A j, k \in 1..Len(T[i]) :
                      T[i][j].var = T[i][k].var => j = k
                /\ \A i \in 1..Len(S) :
                      /\ Len(T[i]) >= Len(S[i])
                      /\ \A j \in 1..Len(S[i]) :
                            /\ T[i][j].var = S[i][j].var
                            /\ T[i][j].line = S[i][j].line
                            /\ S[i][j].used => T[i][j].used
                /\ \A i \in 1..Len(T) :
                      \A j \in 1..Len(T[i]) :
                         (i > Len(S) \/ j > Len(S[i])) =>
                            T[i][j] = [var |-> Last(tree').name,
                                       line |-> Last(tree').lineno,
                                       used |-> FALSE]
      ]_vars

\* x, y, x assigned on three lines and never read: one error each for x and
\* y, at the lines of their first assignments, in that order
C7_Witness ==
    /\ pc = "done"
    /\ Len(tree) = 3
    /\ tree[1].kind = "Assign" /\ tree[2].kind = "Assign"
    /\ tree[3].kind \in {"Assign", "AugAssign"}
    /\ tree[3].name = tree[1].name /\ tree[2].name # tree[1].name
    /\ result = <<[rule_name |-> "unused_variable",
                   message |-> UnusedMessage(tree[1].name), line_number |-> 1],
                  [rule_name |-> "unused_variable",
                   message |-> UnusedMessage(tree[2].name), line_number |-> 2]>>

\* C8: no scope on the stack ever holds a name that starts with an
\* underscore or is a built-in identifier, and no unused_variable error names
\* one, whether it came as a parameter, an assignment target or a
\* comprehension target, read or not.
C8_IgnoredNeverRecorded ==
    /\ \A i \in 1..Len(variables_rule.scopes) :
          \A j \in 1..Len(variables_rule.scopes[i]) :
             ~IsIgnored(variables_rule.scopes[i][j].var)
    /\ \A k \in 1..Len(variables_rule.errors) :
          \A i \in 1..Len(tree) :
             (tree[i].name # None /\ IsIgnored(tree[i].name)) =>
                variables_rule.errors[k].message # UnusedMessage(tree[i].name)

\* a built-in name as parameter, an underscore name as assignment target and
\* as comprehension target, none of them read: nothing is reported
C8_Witness ==
    /\ pc = "done"
    /\ Len(tree) = 4
    /\ tree[1].kind = "FunctionDef" /\ tree[1].name \in BUILTIN_NAMES
    /\ tree[2].kind = "Assign" /\ SubSeq(tree[2].name, 1, 1) = "_"
    /\ tree[3].kind = "Name" /\ tree[3].name = tree[2].name
    /\ tree[4].kind = "End"
    /\ result = <<>>

\* C9: a read of a name changes the used flag of that name in the innermost
\* scope holding it and nothing else: an outer binding that an inner one
\* shadows stays as it was, and a read of a name no scope holds changes nothing.
C9_ReadMarksInnermostOnly ==
    [][(VisitsNode /\ Last(tree').kind = "Name" /\ Last(tree').ctx = "Load") =>
          LET name == Last(tree').name
              S == variables_rule.scopes
              T == variables_rule'.scopes
              holding == {i \in 1..Len(S) : \E j \in 1..Len(S[i]) : S[i][j].var = name}
          IN  /\ variables_rule'.errors = variables_rule.errors
              /\ variables_rule'.current_scope = variables_rule.current_scope
              /\ Len(T) = Len(S)
              /\ \A i \in 1..Len(S) :
                    IF i \in holding /\ \A h \in holding : h <= i
                    THEN /\ Len(T[i]) = Len(S[i])
                         /\ \A j \in 1..Len(S[i]) :
                               /\ T[i][j].var = S[i][j].var
                               /\ T[i][j].line = S[i][j].line
                               /\ T[i][j].used = (S[i][j].used \/ S[i][j].var = name)
                    ELSE T[i] = S[i]
      ]_vars

\* a name assigned at file level, shadowed by a parameter or comprehension
\* target and read only inside: the file-level binding is reported
C9_Witness ==
    /\ pc = "done"
    /\ Len(tree) = 4
    /\ tree[1].kind = "Assign"
    /\ tree[2].kind \in {"FunctionDef", "ListComp"} /\ tree[2].name = tree[1].name
    /\ tree[3].kind = "Name" /\ tree[3].ctx = "Load" /\ tree[3].name = tree[1].name
    /\ tree[4].kind = "End"
    /\ result = <<[rule_name |-> "unused_variable",
                   message |-> UnusedMessage(tree[1].name),
                   line_number |-> tree[1].lineno]>>

\* the function, async function, class and comprehension nodes now open
Enclosing(t) ==
    {i \in 1..Len(Open(t)) :
        Open(t)[i] \in {"FunctionDef", "AsyncFunctionDef", "ClassDef", "ListComp"}}

\* C10: during the traversal the stack holds the file scope and one scope
\* per enclosing function, async function, class or comprehension (none for
\* a conditional), current_scope is the top of the stack, and the stack is
\* empty when check returns.
C10_ScopeStackDiscipline ==
    /\ pc = "visit" =>
          /\ Len(variables_rule.scopes) = 1 + Cardinality(Enclosing(tree))
          /\ variables_rule.current_scope = Len(variables_rule.scopes)
    /\ pc = "done" =>
          /\ variables_rule.scopes = <<>>
          /\ variables_rule.current_scope = 0

\* after a class body has been left, an assignment binds into the file scope
\* again
C10_Witness ==
    /\ pc = "visit"
    /\ Len(tree) = 3
    /\ tree[1].kind = "ClassDef"
    /\ tree[2].kind = "End"
    /\ tree[3].kind = "Assign"
    /\ Len(variables_rule.scopes) = 1
    /\ Len(variables_rule.scopes[1]) = 1
    /\ variables_rule.scopes[1][1].var = tree[3].name

\* C6: in a tree that is one scope, a name assigned in one branch of a
\* conditional and read in the other gets no unused_variable error,
\* whichever branch comes first.
C6_BranchOrderIrrelevant ==
    pc = "done" =>
        \A i \in 1..Len(tree) :
           (/\ \A k \in 1..Len(tree) : tree[k].kind # "FunctionDef"
            /\ i + 4 <= Len(tree)
            /\ tree[i].kind = "If"
            /\ {tree[i + 1].kind, tree[i + 3].kind} = {"Assign", "Name"}
            /\ tree[i + 1].name = tree[i + 3].name
            /\ tree[i + 2].kind = "Else"
            /\ tree[i + 4].kind = "End")
           => \A k \in 1..Len(result) :
                 result[k].message # UnusedMessage(tree[i + 1].name)

(***************************************************************************)
\* the (key, value) pairs written directly in the innermost Dict open in t
RECURSIVE PairsBack(_, _, _)
PairsBack(t, i, depth) ==
    IF i = 0 THEN <<>>
    ELSE IF t[i].kind = "End" THEN PairsBack(t, i - 1, depth + 1)
    ELSE IF t[i].kind = "Dict"
         THEN IF depth = 0 THEN <<>> ELSE PairsBack(t, i - 1, depth - 1)
    ELSE IF t[i].kind = "Key" /\ depth = 0 THEN Append(PairsBack(t, i - 1, 0), t[i])
    ELSE PairsBack(t, i - 1, depth)

DirectPairs(t) == PairsBack(t, Len(t), 0)

RECURSIVE LinesText(_)
LinesText(lines) ==
    IF lines = <<>> THEN ""
    ELSE ToString(Head(lines))
             \o (IF Len(lines) > 1 THEN ", " ELSE "") \o LinesText(Tail(lines))

\* what one mapping literal with these pairs is to yield: one error per
\* constant key value written twice or more, in the order of first occurrence
ExpectedReports(pairs) ==
    LET consts == SelectSeq(pairs, LAMBDA n : n.key.type # "expr")
        Same(i, j) == PyEq(consts[i].key, consts[j].key)
        positions == [i \in 1..Len(consts) |-> i]
        repeated == SelectSeq(positions,
                        LAMBDA i : /\ \A j \in 1..(i - 1) : ~Same(i, j)
                                   /\ \E j \in (i + 1)..Len(consts) : Same(i, j))
        Occurrences(i) == SelectSeq(positions, LAMBDA j : Same(i, j))
        Lines(i) == [k \in 1..Len(Occurrences(i)) |-> consts[Occurrences(i)[k]].lineno]
    IN  [r \in 1..Len(repeated) |->
            [rule_name |-> "duplicate_dict_keys",
             message |-> "Key \"" \o consts[repeated[r]].key.repr
                             \o "\" has been repeated on lines "
                             \o LinesText(Lines(repeated[r])),
             line_number |-> consts[repeated[r]].lineno]]

\* C4: when visit_Dict finishes a mapping literal it has added exactly one
\* error per constant key value with two or more directly written entries
\* (keys equal as Python dict keys are one value), none for a key written once
\* or a computed key; the error is at the line of the first occurrence and its
\* message lists the lines of all occurrences in encounter order.
C4_OneErrorPerRepeatedKey ==
    [][(/\ VisitsNode
        /\ Last(tree').kind = "End"
        /\ TopFrame(dict_rule).kind = "visit_Dict")
       => dict_rule'.errors = dict_rule.errors \o ExpectedReports(DirectPairs(tree))
      ]_vars

\* keys "a", 1, "a", and a computed key: one error, for "a", at the line of
\* the first "a", naming both lines
C4_Witness ==
    /\ Len(tree) = 6
    /\ tree[1].kind = "Dict"
    /\ tree[2].key = StrKey("a") /\ tree[2].value = "Constant"
    /\ tree[3].key = IntKey(1)
    /\ tree[4].key = StrKey("a") /\ tree[4].value = "Constant"
    /\ tree[5].key = ExprKey
    /\ tree[6].kind = "End"
    /\ dict_rule.errors =
          <<[rule_name |-> "duplicate_dict_keys",
             message |-> "Key \"a\" has been repeated on lines 2, 4",
             line_number |-> 2]>>

\* the position of the End that closes the compound node at position i of t
MatchingEnd(t, i) ==
    CHOOSE j \in (i + 1)..Len(t) :
        /\ Len(Open(SubSeq(t, 1, j))) = Len(Open(SubSeq(t, 1, i - 1)))
        /\ \A k \in (i + 1)..(j - 1) :
              Len(Open(SubSeq(t, 1, k))) > Len(Open(SubSeq(t, 1, i - 1)))

\* C5: every mapping literal of the tree is analysed as a literal of its own:
\* wherever it is written, also inside a value expression of another mapping
\* literal, each of its repeated constant keys has its error in what check returns.
C5_EveryLiteralAnalysed ==
    pc = "done" =>
        \A i \in 1..Len(tree) :
           tree[i].kind = "Dict" =>
              LET expected ==
                      ExpectedReports(DirectPairs(SubSeq(tree, 1, MatchingEnd(tree, i) - 1)))
              IN  \A r \in 1..Len(expected) :
                     \E k \in 1..Len(result) : result[k] = expected[r]

(***************************************************************************)
\* C1: a call of lint on a source text returns what the first call on that
\* text returned, whatever was linted in between.
C1_Idempotent ==
    \A i, j \in 1..Len(log) :
       log[i].tree = log[j].tree => log[i].result = log[j].result

\* what the three check calls of the last lint returned, in registration order
Returned == imports_rule.errors \o variables_rule.errors \o dict_rule.errors

RuleRank(rule_name) ==
    CASE rule_name = "unused_import" -> 1
      [] rule_name = "unused_variable" -> 2
      [] rule_name = "duplicate_dict_keys" -> 3

\* C2: what lint returns is ascending by line_number; errors of one line are
\* in rule-registration order and, within a rule, in that rule's discovery
\* order (they are the errors of that line in the order the rules returned them).
C2_SortedStable ==
    pc = "done" =>
        /\ \A i \in 1..(Len(result) - 1) :
              /\ result[i].line_number <= result[i + 1].line_number
              /\ result[i].line_number = result[i + 1].line_number =>
                    RuleRank(result[i].rule_name) <= RuleRank(result[i + 1].rule_name)
        /\ \A l \in {result[i].line_number : i \in 1..Len(result)}
                    \cup {Returned[i].line_number : i \in 1..Len(Returned)} :
              SelectSeq(result, LAMBDA e : e.line_number = l)
                  = SelectSeq(Returned, LAMBDA e : e.line_number = l)

\* an unused import and an unused variable share a line, in that order, and
\* the sort had to move the error of an earlier line in front of them
C2_Witness ==
    /\ pc = "done"
    /\ Len(result) = 3
    /\ result # Returned
    /\ result[1].line_number < result[2].line_number
    /\ result[2].line_number = result[3].line_number
    /\ result[2].rule_name = "unused_import"
    /\ result[3].rule_name = "unused_variable"

====
